---- MODULE Spec2Model ----
(***************************************************************************)
(* A model of the ABCNN-1 training code:                                   *)
(*   - process_batches (src/train.py), one pass over a dataset, step by    *)
(*     step (specification SpecPB);                                        *)
(*   - train (src/train.py), the epoch loop with its checkpoint rules      *)
(*     (specification Spec);                                               *)
(*   - ABCNN1Block.forward (src/src/model/blocks/abcnn1.py)                *)
(*     (specification SpecBlock).                                          *)
(* Metric values are exact rationals, held as integers scaled by Scale.    *)
(* An example of a dataset is its index; its label is dataset[index].      *)
(***************************************************************************)
EXTENDS Integers, Sequences, FiniteSets, TLC

\* ------------------------------------------------------------- bounds
\* The largest dataset of a process_batches pass.
MaxN == 3
\* The largest batch_size.
MaxBatch == 2
\* The largest num_epochs of a train call.
MaxEpochs == 3
\* The largest start_epoch of a train call.
MaxStart == 2
\* The largest size of log_every.
MaxLogEvery == 2
\* The num_epochs of the train calls in which a step may fail.
MaxFaultEpochs == 2

\* The largest max_length of the block's input sentences.
MaxLen == 2
\* The largest input_size of the block.
MaxChan == 1
\* The largest width of the block's convolution.
MaxWidth == 2
\* The largest output_size of the block's convolution.
MaxOut == 2

\* ------------------------------------------------------- arithmetic
RECURSIVE GCD(_, _)
GCD(a, b) == IF b = 0 THEN a ELSE GCD(b, a % b)

RECURSIVE LCMUpTo(_)
LCMUpTo(n) == IF n <= 1 THEN 1 ELSE (LCMUpTo(n - 1) * n) \div GCD(LCMUpTo(n - 1), n)

\* Every metric of a pass over at most MaxN examples is a multiple of 1/Scale.
Scale == 2 * LCMUpTo(2 * MaxN)

RECURSIVE SumSeq(_)
SumSeq(s) == IF s = <<>> THEN 0 ELSE Head(s) + SumSeq(Tail(s))

RECURSIVE SumOver(_, _)
SumOver(f, S) ==
    IF S = {} THEN 0
    ELSE LET x == CHOOSE y \in S : TRUE IN f[x] + SumOver(f, S \ {x})

\* Python's a % b for b # 0: the result has the sign of b.
PyMod(a, b) == IF b > 0 THEN a % b ELSE -((-a) % (-b))

\* All orders of the examples 1..n (the shuffles a DataLoader can draw).
Perms(n) == {p \in [1..n -> 1..n] : \A i, j \in 1..n : p[i] = p[j] => i = j}

\* ------------------------------------------------ sklearn.metrics
\* The number of positions with actual label x and predicted label y.
Count(a, p, x, y) == Cardinality({i \in 1..Len(a) : a[i] = x /\ p[i] = y})

\* Without a labels argument the macro metrics range over the labels that
\* occur in y_true or y_pred.
UniqueLabels(a, p) == {a[i] : i \in 1..Len(a)} \cup {p[i] : i \in 1..Len(p)}

TP(a, p, c) == Count(a, p, c, c)
FP(a, p, c) == Cardinality({i \in 1..Len(a) : a[i] # c /\ p[i] = c})
FN(a, p, c) == Cardinality({i \in 1..Len(a) : a[i] = c /\ p[i] # c})

\* A ratio with denominator 0 counts as 0 (zero_division).
Ratio(num, den) == IF den = 0 THEN 0 ELSE (Scale * num) \div den

\* The unweighted mean over the labels (0 over no label at all, which no
\* pass reaches: an empty dataset faults before the metrics).
MacroMean(f, L) == IF L = {} THEN 0 ELSE SumOver(f, L) \div Cardinality(L)

accuracy_score(a, p) ==
    Ratio(Cardinality({i \in 1..Len(a) : a[i] = p[i]}), Len(a))

precision_score(a, p) ==
    LET L == UniqueLabels(a, p)
    IN  MacroMean([c \in L |-> Ratio(TP(a, p, c), TP(a, p, c) + FP(a, p, c))], L)

recall_score(a, p) ==
    LET L == UniqueLabels(a, p)
    IN  MacroMean([c \in L |-> Ratio(TP(a, p, c), TP(a, p, c) + FN(a, p, c))], L)

f1_score(a, p) ==
    LET L == UniqueLabels(a, p)
    IN  MacroMean([c \in L |-> Ratio(2 * TP(a, p, c),
                                     2 * TP(a, p, c) + FP(a, p, c) + FN(a, p, c))], L)

\* A confusion matrix over the labels that occur in the data (labels=None).
RECURSIVE SortedSeq(_)
SortedSeq(S) ==
    IF S = {} THEN <<>>
    ELSE LET m == CHOOSE x \in S : \A y \in S : x <= y
         IN  <<m>> \o SortedSeq(S \ {m})

ConfusionMatrixInferred(a, p) ==
    LET L == SortedSeq(UniqueLabels(a, p))
    IN  [i \in 1..Len(L) |-> [j \in 1..Len(L) |-> Count(a, p, L[i], L[j])]]

\* confusion_matrix(actual, predicted, labels=[0, 1]): row = actual label,
\* column = predicted label, in the order of CmLabels.
CmLabels == <<0, 1>>
confusion_matrix(a, p) ==
    [i \in 1..Len(CmLabels) |->
        [j \in 1..Len(CmLabels) |-> Count(a, p, CmLabels[i], CmLabels[j])]]

\* ---------------------------------------------------------------- state
VARIABLES
    \* process_batches: its arguments and locals
    dataset,        \* the labels of the dataset's examples; example i is index i
    loss_fn,        \* "any": arbitrary per-example losses; "zero_one": 1 per error
    batch_size,
    is_training,
    pb_pc,          \* the position in process_batches
    dataloader,     \* the batches not yet drawn, each a sequence of examples
    features,       \* the examples of the current batch
    targets,        \* their labels
    predictions,    \* argmax of the scores of the current batch
    batch_loss,
    total_loss,
    actual,
    predicted,
    results,
    cm,
    \* the model and the optimizer
    weights,        \* one entry per optimizer.step(): the gradients it applied
    grad,           \* batch gradients accumulated since the last zero_grad()
    \* observation of a pass
    consumed,       \* the examples in the order they were stored
    pred_of,        \* the prediction the forward pass made for each example
    loss_of,        \* the loss of each example
    calls,          \* the calls on model and optimizer, in order, with the batch
    batch_no,       \* the number of batches drawn
    metric_calls    \* how often the metrics were computed

pbvars == <<dataset, loss_fn, batch_size, is_training, pb_pc, dataloader,
            features, targets, predictions, batch_loss, total_loss, actual,
            predicted, results, cm, weights, grad, consumed, pred_of, loss_of,
            calls, batch_no, metric_calls>>

VARIABLES
    \* train: its arguments and locals
    trainset,       \* the labels of the training examples
    valset,         \* the labels of the validation examples
    start_epoch,
    num_epochs,
    log_every,
    range_next,     \* the next value of range(start_epoch, num_epochs + 1)
    epoch,
    pc,             \* the position in train
    history,        \* key |-> the sequence of per-epoch values
    best_val_f1,
    train_results,
    val_results,
    returned,       \* the model train returned
    \* the collaborators of train
    disk,           \* save_checkpoint: filepath |-> the checkpoint written
    saves,          \* the save_checkpoint calls, in order
    plots,          \* the generate_plots calls, in order
    reports,        \* the results dict every pass returned, in order
    \* observation of a run
    history0,       \* the history as passed in
    epochs_run,     \* the epochs the loop entered, in order
    trained         \* the model after each training pass

trainvars == <<trainset, valset, start_epoch, num_epochs, log_every,
               range_next, epoch, pc, history, best_val_f1, train_results,
               val_results, returned, disk, saves, plots,
               reports, history0, epochs_run, trained>>

VARIABLES
    \* ABCNN1Block.forward
    blk_x1, blk_x2, \* the inputs
    blk_conv,       \* the convolution layer of the block
    blk_training,   \* the block's training flag (dropout is active)
    blk_out         \* the outputs of the forward runs so far

blockvars == <<blk_x1, blk_x2, blk_conv, blk_training, blk_out>>

vars == <<pbvars, trainvars, blockvars>>

None == "None"
Labels == {0, 1}
\* The values a per-example loss takes.
LossValues == 0..1

\* ------------------------------------------------------- DataLoader
\* DataLoader(dataset, batch_size, shuffle=True): the examples in the drawn
\* order, cut into batches of batch_size; the last batch holds the rest.
\* A loader that drops a last batch smaller than batch_size (drop_last=True).
RECURSIVE BatchesDropLast(_, _)
BatchesDropLast(order, bs) ==
    IF Len(order) < bs THEN <<>>
    ELSE <<SubSeq(order, 1, bs)>> \o BatchesDropLast(SubSeq(order, bs + 1, Len(order)), bs)

RECURSIVE Batches(_, _)
Batches(order, bs) ==
    IF Len(order) = 0 THEN <<>>
    ELSE IF Len(order) <= bs THEN <<order>>
    ELSE <<SubSeq(order, 1, bs)>> \o Batches(SubSeq(order, bs + 1, Len(order)), bs)

DataLoader(ds, bs, order) == Batches([i \in 1..Len(ds) |-> order[i]], bs)

\* ------------------------------------------------- process_batches
\* The labels of a batch of examples.
TargetsOf(ds, batch) == [k \in 1..Len(batch) |-> ds[batch[k]]]

\* loss_fn(scores, targets): the per-example losses the loss function can
\* return for a batch.
LossChoices(fn, preds, tgts) ==
    IF fn = "zero_one"
    THEN {[k \in 1..Len(tgts) |-> IF preds[k] = tgts[k] THEN 0 ELSE 1]}
    ELSE [1..Len(tgts) -> LossValues]

\* Lines 228-229: actual.extend(targets), predicted.extend(predictions).
StoreLabels(acc, batch) == acc \o batch

\* A pass that runs the backward pass whenever it holds an optimizer.
DoBackwardAlways(training) == TRUE

\* Line 236: the backward pass runs only when training.
DoBackward(training) == training

\* A zero_grad() that leaves the buffer as it is.
ZeroGradKeep(g) == g

\* Line 237: optimizer.zero_grad() clears the gradient buffer.
ZeroGradOp(g) == 0

\* Line 238: batch_loss.backward() adds the batch's gradient to the buffer.
BackwardOp(g) == g + 1

\* Line 239: optimizer.step() applies the buffer to the weights.
StepOp(w, g) == Append(w, g)

\* A divisor that is never 0.
LossDivisorAtLeastOne(ds, nbatches) == IF Len(ds) = 0 THEN 1 ELSE Len(ds)

\* An average over the number of batches.
LossDivisorBatches(ds, nbatches) == nbatches

\* Line 242: the accumulated loss is averaged over the dataset.
LossDivisor(ds, nbatches) == Len(ds)

\* The results dict of a pass (lines 241-258).
Results(tl, div, a, p) ==
    [loss      |-> (Scale * tl) \div div,
     accuracy  |-> accuracy_score(a, p),
     precision |-> precision_score(a, p),
     recall    |-> recall_score(a, p),
     f1        |-> f1_score(a, p)]

\* Extends the function f by the pairs keys[k] |-> vals[k].
Record(f, keys, vals) ==
    [e \in DOMAIN f \cup {keys[k] : k \in 1..Len(keys)} |->
        IF \E k \in 1..Len(keys) : keys[k] = e
        THEN vals[CHOOSE k \in 1..Len(keys) : keys[k] = e]
        ELSE f[e]]

\* No train call is under way.
TrainIdle ==
    /\ trainset = <<>>
    /\ valset = <<>>
    /\ start_epoch = 0
    /\ num_epochs = 0
    /\ log_every = 0
    /\ range_next = 0
    /\ epoch = None
    /\ pc = "idle"
    /\ history = <<>>
    /\ best_val_f1 = 0
    /\ train_results = None
    /\ val_results = None
    /\ returned = None
    /\ disk = <<>>
    /\ saves = <<>>
    /\ plots = <<>>
    /\ reports = <<>>
    /\ history0 = <<>>
    /\ epochs_run = <<>>
    /\ trained = <<>>

\* No block is in use.
BlockIdle ==
    /\ blk_x1 = None
    /\ blk_x2 = None
    /\ blk_conv = None
    /\ blk_training = FALSE
    /\ blk_out = <<>>

\* The datasets of up to MaxN examples, the examples of label 0 first: the
\* shuffle of the DataLoader draws every order of them.
Datasets ==
    {[i \in 1..n |-> IF i <= z THEN 0 ELSE 1] : n \in 0..MaxN, z \in 0..MaxN}

\* Lines 204-214: a call, from train (is_training as passed) or from
\* evaluate (lines 146-147, is_training = False), with the shuffle the
\* DataLoader draws; the gradient buffer holds a gradient of an earlier
\* backward pass.
PBInit ==
    /\ TrainIdle
    /\ BlockIdle
    /\ dataset \in Datasets
    /\ loss_fn = "any"
    /\ batch_size \in {1, MaxBatch}
    /\ is_training \in BOOLEAN
    /\ \E order \in Perms(Len(dataset)) :
          dataloader = DataLoader(dataset, batch_size, order)
    /\ pb_pc = "loop"
    /\ features = <<>>
    /\ targets = <<>>
    /\ predictions = <<>>
    /\ batch_loss = 0
    /\ total_loss = 0
    /\ actual = <<>>
    /\ predicted = <<>>
    /\ results = None
    /\ cm = None
    /\ weights = <<>>
    /\ grad = 1
    /\ consumed = <<>>
    /\ pred_of = <<>>
    /\ loss_of = <<>>
    /\ calls = <<>>
    /\ batch_no = 0
    /\ metric_calls = 0

\* Lines 215-221: the loop draws the next batch, or ends; the transfer of the
\* batch to the GPU changes no value.
NextBatch ==
    /\ pb_pc = "loop"
    /\ IF dataloader # <<>>
       THEN /\ features' = Head(dataloader)
            /\ targets' = TargetsOf(dataset, Head(dataloader))
            /\ dataloader' = Tail(dataloader)
            /\ batch_no' = batch_no + 1
            /\ pb_pc' = "forward"
       ELSE /\ pb_pc' = "metrics"
            /\ UNCHANGED <<features, targets, dataloader, batch_no>>
    /\ UNCHANGED <<dataset, loss_fn, batch_size, is_training, predictions,
                   batch_loss, total_loss, actual, predicted, results, cm,
                   weights, grad, consumed, pred_of, loss_of, calls,
                   metric_calls>>
    /\ UNCHANGED <<trainvars, blockvars>>

\* Lines 224-233: the forward pass, the label lists and the loss.
Forward ==
    /\ pb_pc = "forward"
    /\ \E preds \in [1..Len(features) -> Labels] :
         \E losses \in LossChoices(loss_fn, preds, targets) :
          /\ predictions' = preds
          /\ actual' = StoreLabels(actual, targets)
          /\ predicted' = StoreLabels(predicted, preds)
          /\ batch_loss' = SumSeq(losses)
          /\ total_loss' = total_loss + SumSeq(losses)
          /\ pred_of' = Record(pred_of, features, preds)
          /\ loss_of' = Record(loss_of, features, losses)
    /\ consumed' = consumed \o features
    /\ calls' = Append(calls, <<"forward", batch_no>>)
    /\ pb_pc' = IF DoBackward(is_training) THEN "zero_grad" ELSE "loop"
    /\ UNCHANGED <<dataset, loss_fn, batch_size, is_training, dataloader,
                   features, targets, results, cm, weights, grad, batch_no,
                   metric_calls>>
    /\ UNCHANGED <<trainvars, blockvars>>

\* Line 237: optimizer.zero_grad().
ZeroGrad ==
    /\ pb_pc = "zero_grad"
    /\ grad' = ZeroGradOp(grad)
    /\ calls' = Append(calls, <<"zero_grad", batch_no>>)
    /\ pb_pc' = "backward"
    /\ UNCHANGED <<dataset, loss_fn, batch_size, is_training, dataloader,
                   features, targets, predictions, batch_loss, total_loss,
                   actual, predicted, results, cm, weights, consumed, pred_of,
                   loss_of, batch_no, metric_calls>>
    /\ UNCHANGED <<trainvars, blockvars>>

\* Line 238: batch_loss.backward().
Backward ==
    /\ pb_pc = "backward"
    /\ grad' = BackwardOp(grad)
    /\ calls' = Append(calls, <<"backward", batch_no>>)
    /\ pb_pc' = "step"
    /\ UNCHANGED <<dataset, loss_fn, batch_size, is_training, dataloader,
                   features, targets, predictions, batch_loss, total_loss,
                   actual, predicted, results, cm, weights, consumed, pred_of,
                   loss_of, batch_no, metric_calls>>
    /\ UNCHANGED <<trainvars, blockvars>>

\* Line 239: optimizer.step().
Step ==
    /\ pb_pc = "step"
    /\ weights' = StepOp(weights, grad)
    /\ calls' = Append(calls, <<"step", batch_no>>)
    /\ pb_pc' = "loop"
    /\ UNCHANGED <<dataset, loss_fn, batch_size, is_training, dataloader,
                   features, targets, predictions, batch_loss, total_loss,
                   actual, predicted, results, cm, grad, consumed, pred_of,
                   loss_of, batch_no, metric_calls>>
    /\ UNCHANGED <<trainvars, blockvars>>

\* Lines 241-262: the metrics over the accumulated lists, the confusion
\* matrix and the return; len(dataset) = 0 raises ZeroDivisionError at 242.
Metrics ==
    /\ pb_pc = "metrics"
    /\ IF LossDivisor(dataset, batch_no) = 0
       THEN /\ pb_pc' = "fault"
            /\ UNCHANGED <<results, cm, metric_calls>>
       ELSE /\ results' = Results(total_loss, LossDivisor(dataset, batch_no),
                                  actual, predicted)
            /\ cm' = confusion_matrix(actual, predicted)
            /\ metric_calls' = metric_calls + 1
            /\ pb_pc' = "done"
    /\ UNCHANGED <<dataset, loss_fn, batch_size, is_training, dataloader,
                   features, targets, predictions, batch_loss, total_loss,
                   actual, predicted, weights, grad, consumed, pred_of,
                   loss_of, calls, batch_no>>
    /\ UNCHANGED <<trainvars, blockvars>>

PBNext == NextBatch \/ Forward \/ ZeroGrad \/ Backward \/ Step \/ Metrics

\* A whole pass of process_batches as one function of what it draws: the
\* shuffle (order), the predictions (preds) and the losses of the examples.
RECURSIVE RunBatches(_, _, _, _, _, _)
RunBatches(batches, ds, preds, losses, training, st) ==
    IF batches = <<>> THEN st
    ELSE LET b  == Head(batches)
             bl == SumSeq([k \in 1..Len(b) |-> losses[b[k]]])
             g  == IF DoBackward(training)
                   THEN BackwardOp(ZeroGradOp(st.grad)) ELSE st.grad
         IN  RunBatches(Tail(batches), ds, preds, losses, training,
                [total_loss |-> st.total_loss + bl,
                 actual     |-> StoreLabels(st.actual, TargetsOf(ds, b)),
                 predicted  |-> StoreLabels(st.predicted,
                                            [k \in 1..Len(b) |-> preds[b[k]]]),
                 weights    |-> IF DoBackward(training)
                                THEN StepOp(st.weights, g) ELSE st.weights,
                 grad       |-> g,
                 batch_no   |-> st.batch_no + 1])

process_batches(ds, bs, training, order, preds, losses, w, g) ==
    LET st == RunBatches(DataLoader(ds, bs, order), ds, preds, losses, training,
                         [total_loss |-> 0, actual |-> <<>>, predicted |-> <<>>,
                          weights |-> w, grad |-> g, batch_no |-> 0])
    IN  IF LossDivisor(ds, st.batch_no) = 0
        THEN [fault |-> TRUE, weights |-> st.weights, grad |-> st.grad,
              results |-> None, cm |-> None]
        ELSE [fault |-> FALSE, weights |-> st.weights, grad |-> st.grad,
              results |-> Results(st.total_loss, LossDivisor(ds, st.batch_no),
                                  st.actual, st.predicted),
              cm |-> confusion_matrix(st.actual, st.predicted)]

SpecPB == PBInit /\ [][PBNext]_vars

\* ---------------------------------------------------------------- train
\* The locals of process_batches, which a pass run as one step leaves alone.
pblocals == <<dataset, is_training, pb_pc, dataloader, features, targets,
              predictions, batch_loss, total_loss, actual, predicted, results,
              cm, consumed, pred_of, loss_of, calls, batch_no, metric_calls>>

\* No process_batches call is observed step by step.
PBIdle ==
    /\ dataset = <<>>
    /\ is_training = FALSE
    /\ pb_pc = "idle"
    /\ dataloader = <<>>
    /\ features = <<>>
    /\ targets = <<>>
    /\ predictions = <<>>
    /\ batch_loss = 0
    /\ total_loss = 0
    /\ actual = <<>>
    /\ predicted = <<>>
    /\ results = None
    /\ cm = None
    /\ consumed = <<>>
    /\ pred_of = <<>>
    /\ loss_of = <<>>
    /\ calls = <<>>
    /\ batch_no = 0
    /\ metric_calls = 0

\* The keys of the results dict, in the order it is built (lines 252-258).
ResultNames == <<"loss", "accuracy", "precision", "recall", "f1">>

\* "train_{}".format(name), "val_{}".format(name).
HistKey(prefix, name) == prefix \o "_" \o name

HistKeys == {HistKey(pre, ResultNames[i]) : pre \in {"train", "val"},
                                            i \in 1..Len(ResultNames)}

\* An update that assigns the epoch's value instead of appending it.
AssignResults(h, prefix, res) ==
    [k \in DOMAIN h |->
        IF \E i \in 1..Len(ResultNames) : k = HistKey(prefix, ResultNames[i])
        THEN <<res[ResultNames[CHOOSE i \in 1..Len(ResultNames) :
                                    k = HistKey(prefix, ResultNames[i])]]>>
        ELSE h[k]]

\* Lines 119-122: every value of a results dict is appended under its key.
AppendResults(h, prefix, res) ==
    [k \in DOMAIN h |->
        IF \E i \in 1..Len(ResultNames) : k = HistKey(prefix, ResultNames[i])
        THEN Append(h[k], res[ResultNames[CHOOSE i \in 1..Len(ResultNames) :
                                            k = HistKey(prefix, ResultNames[i])]])
        ELSE h[k]]

\* A range that leaves out num_epochs.
RangeEndExclusive(n) == n

\* Line 74: range(start_epoch, num_epochs + 1) ends before this value.
RangeEnd(n) == n + 1

\* A rule that also saves on a tie.
IsNewBestOrTie(f1, best) == f1 >= best

\* Line 125: the best-checkpoint rule.
IsNewBest(f1, best) == f1 > best

\* A rule that logs for a positive interval only.
IsLogEpochPositive(every, e) == every > 0 /\ e % every = 0

\* Line 132: the periodic-checkpoint rule.
IsLogEpoch(every, e) == every # 0 /\ PyMod(e, every) = 0

\* A per-epoch checkpoint written to the path of the best one.
EpochPathBest(e) == "best_checkpoint"

\* Lines 128, 134-135: the checkpoint paths.
BestPath == "best_checkpoint"
EpochPath(e) == "checkpoint_epoch_" \o ToString(e)

\* save_checkpoint(model, optimizer, history, epoch, filepath): the file at
\* filepath is written, replacing what it held.
save_checkpoint(d, model, optimizer, h, e, filepath) ==
    [f \in DOMAIN d \cup {filepath} |->
        IF f = filepath
        THEN [model |-> model, optimizer |-> optimizer, history |-> h, epoch |-> e]
        ELSE d[f]]

\* The history passed to a run that starts at epoch s: one value per earlier
\* epoch under every key.
PriorHistory(s) == [k \in HistKeys |-> [i \in 1..(s - 1) |-> Scale]]

\* The checkpoint directory of a run that starts at epoch s: a run resumed
\* after epoch s - 1 finds the best checkpoint of the earlier run.
PriorDisk(s) ==
    IF s > 1
    THEN [f \in {BestPath} |->
            [model |-> <<>>, optimizer |-> 0, history |-> PriorHistory(s),
             epoch |-> s - 1]]
    ELSE <<>>

\* A tracker that starts at the best validation F1 of the history passed in.
InitialBestFromHistory(h) ==
    LET f1s == {h[HistKey("val", "f1")][i] : i \in 1..Len(h[HistKey("val", "f1")])}
    IN  CHOOSE m \in f1s \cup {0} : \A x \in f1s \cup {0} : x <= m

\* Line 71: the tracker of the best validation F1 starts at 0.
InitialBest(h) == 0

TrainSet == <<0, 1>>
ValSet == <<0, 1>>

\* Lines 62-71: the call.
TrainInit ==
    /\ PBIdle
    /\ BlockIdle
    /\ loss_fn = "zero_one"
    /\ batch_size \in {1, MaxBatch}
    /\ weights = <<>>
    /\ grad = 0
    /\ trainset = TrainSet
    /\ valset = ValSet
    /\ start_epoch \in {1, MaxStart}
    /\ num_epochs \in 0..MaxEpochs
    /\ log_every \in {-MaxLogEvery, 0, MaxLogEvery}
    /\ range_next = start_epoch
    /\ epoch = None
    /\ pc = "loop"
    /\ history = PriorHistory(start_epoch)
    /\ history0 = history
    /\ best_val_f1 = InitialBest(history)
    /\ train_results = None
    /\ val_results = None
    /\ returned = None
    /\ disk = PriorDisk(start_epoch)
    /\ saves = <<>>
    /\ plots = <<>>
    /\ reports = <<>>
    /\ epochs_run = <<>>
    /\ trained = <<>>

\* Lines 74, 139: the loop takes the next epoch, or train returns the model.
LoopHead ==
    /\ pc = "loop"
    /\ IF range_next < RangeEnd(num_epochs)
       THEN /\ epoch' = range_next
            /\ range_next' = range_next + 1
            /\ epochs_run' = Append(epochs_run, range_next)
            /\ pc' = "train"
            /\ UNCHANGED returned
       ELSE /\ returned' = weights
            /\ pc' = "done"
            /\ UNCHANGED <<epoch, range_next, epochs_run>>
    /\ UNCHANGED <<trainset, valset, start_epoch, num_epochs, log_every,
                   history, best_val_f1, train_results, val_results,
                   disk, saves, plots, reports, history0, trained>>
    /\ UNCHANGED <<pblocals, loss_fn, batch_size, weights, grad, blockvars>>

\* Lines 76-95: the training pass and its report; the confusion matrix is
\* written to the console and not used again.
TrainPass ==
    /\ pc = "train"
    /\ \E order \in Perms(Len(trainset)), preds \in [1..Len(trainset) -> Labels] :
         \E losses \in LossChoices(loss_fn, preds, trainset) :
           LET out == process_batches(trainset, batch_size, TRUE, order, preds,
                                      losses, weights, grad)
           IN  /\ weights' = out.weights
               /\ grad' = out.grad
               /\ IF out.fault
                  THEN /\ pc' = "fault"
                       /\ UNCHANGED <<train_results, reports, trained>>
                  ELSE /\ train_results' = out.results
                       /\ reports' = Append(reports,
                              [pass |-> "train", epoch |-> epoch,
                               results |-> out.results])
                       /\ trained' = Append(trained, out.weights)
                       /\ pc' = "val"
    /\ UNCHANGED <<trainset, valset, start_epoch, num_epochs, log_every,
                   range_next, epoch, history, best_val_f1, val_results, returned, disk, saves, plots, history0, epochs_run>>
    /\ UNCHANGED <<pblocals, loss_fn, batch_size, blockvars>>

\* Lines 97-116: the validation pass and its report.
ValPass ==
    /\ pc = "val"
    /\ \E order \in Perms(Len(valset)), preds \in [1..Len(valset) -> Labels] :
         \E losses \in LossChoices(loss_fn, preds, valset) :
           LET out == process_batches(valset, batch_size, FALSE, order, preds,
                                      losses, weights, grad)
           IN  /\ weights' = out.weights
               /\ grad' = out.grad
               /\ IF out.fault
                  THEN /\ pc' = "fault"
                       /\ UNCHANGED <<val_results, reports>>
                  ELSE /\ val_results' = out.results
                       /\ reports' = Append(reports,
                              [pass |-> "val", epoch |-> epoch,
                               results |-> out.results])
                       /\ pc' = "history"
    /\ UNCHANGED <<trainset, valset, start_epoch, num_epochs, log_every,
                   range_next, epoch, history, best_val_f1, train_results,
                   returned, disk, saves, plots, history0, epochs_run,
                   trained>>
    /\ UNCHANGED <<pblocals, loss_fn, batch_size, blockvars>>

\* An epoch that saves the best checkpoint before it appends to the history.
UpdateBestThenHistory ==
    /\ pc = "history"
    /\ IF IsNewBest(val_results.f1, best_val_f1)
       THEN /\ best_val_f1' = val_results.f1
            /\ disk' = save_checkpoint(disk, weights, grad, history, epoch, BestPath)
            /\ saves' = Append(saves, [path |-> BestPath, epoch |-> epoch])
       ELSE UNCHANGED <<best_val_f1, disk, saves>>
    /\ history' = AppendResults(AppendResults(history, "train", train_results),
                                "val", val_results)
    /\ pc' = "periodic"
    /\ UNCHANGED <<trainset, valset, start_epoch, num_epochs, log_every,
                   range_next, epoch, train_results, val_results, returned,
                   plots, reports, history0, epochs_run, trained>>
    /\ UNCHANGED <<pbvars, blockvars>>

\* Lines 118-122: the run history grows by this epoch's values.
UpdateHistory ==
    /\ pc = "history"
    /\ history' = AppendResults(AppendResults(history, "train", train_results),
                                "val", val_results)
    /\ pc' = "best"
    /\ UNCHANGED <<trainset, valset, start_epoch, num_epochs, log_every,
                   range_next, epoch, best_val_f1, train_results, val_results, returned, disk, saves, plots, reports,
                   history0, epochs_run, trained>>
    /\ UNCHANGED <<pbvars, blockvars>>

\* A best-checkpoint step that saves and leaves the tracker as it was.
UpdateBestUntracked ==
    /\ pc = "best"
    /\ IF IsNewBest(val_results.f1, best_val_f1)
       THEN /\ disk' = save_checkpoint(disk, weights, grad, history, epoch, BestPath)
            /\ saves' = Append(saves, [path |-> BestPath, epoch |-> epoch])
       ELSE UNCHANGED <<disk, saves>>
    /\ pc' = "periodic"
    /\ UNCHANGED <<trainset, valset, start_epoch, num_epochs, log_every,
                   range_next, epoch, history, best_val_f1, train_results,
                   val_results, returned, plots, reports, history0,
                   epochs_run, trained>>
    /\ UNCHANGED <<pbvars, blockvars>>

\* Lines 124-129: the best checkpoint.
UpdateBest ==
    /\ pc = "best"
    /\ IF IsNewBest(val_results.f1, best_val_f1)
       THEN /\ best_val_f1' = val_results.f1
            /\ disk' = save_checkpoint(disk, weights, grad, history, epoch, BestPath)
            /\ saves' = Append(saves, [path |-> BestPath, epoch |-> epoch])
       ELSE UNCHANGED <<best_val_f1, disk, saves>>
    /\ pc' = "periodic"
    /\ UNCHANGED <<trainset, valset, start_epoch, num_epochs, log_every,
                   range_next, epoch, history, train_results, val_results, returned, plots, reports, history0,
                   epochs_run, trained>>
    /\ UNCHANGED <<pbvars, blockvars>>

\* Lines 131-137: the periodic checkpoint and the plots.
Periodic ==
    /\ pc = "periodic"
    /\ IF IsLogEpoch(log_every, epoch)
       THEN /\ disk' = save_checkpoint(disk, weights, grad, history, epoch,
                                       EpochPath(epoch))
            /\ saves' = Append(saves, [path |-> EpochPath(epoch), epoch |-> epoch])
            /\ plots' = Append(plots, [epoch |-> epoch, history |-> history])
       ELSE UNCHANGED <<disk, saves, plots>>
    /\ pc' = "loop"
    /\ UNCHANGED <<trainset, valset, start_epoch, num_epochs, log_every,
                   range_next, epoch, history, best_val_f1, train_results,
                   val_results, returned, reports, history0,
                   epochs_run, trained>>
    /\ UNCHANGED <<pbvars, blockvars>>

Next == LoopHead \/ TrainPass \/ ValPass \/ UpdateHistory \/ UpdateBest \/ Periodic

Spec == TrainInit /\ [][Next]_vars

\* ------------------------------------------------------ claims on train
SetMax(S) == CHOOSE x \in S : \A y \in S : y <= x

EpochsRun == {epochs_run[i] : i \in 1..Len(epochs_run)}

\* The epochs whose history update, best-checkpoint step and periodic step
\* have run.
HistoryDone == {e \in EpochsRun : e # epoch \/ pc \in {"best", "periodic", "loop", "done"}}
BestDone == {e \in EpochsRun : e # epoch \/ pc \in {"periodic", "loop", "done"}}
PeriodicDone == {e \in EpochsRun : e # epoch \/ pc \in {"loop", "done"}}

\* The results the pass of kind p ("train", "val") returned in epoch e.
ReportsOf(p, e) == {i \in 1..Len(reports) : reports[i].pass = p /\ reports[i].epoch = e}
ResultsOf(p, e) == reports[CHOOSE i \in ReportsOf(p, e) : TRUE].results
ValF1(e) == ResultsOf("val", e).f1

\* The save_checkpoint calls of epoch e to filepath f.
SavesTo(f, e) == {i \in 1..Len(saves) : saves[i].path = f /\ saves[i].epoch = e}
BestSaveEpochs == {e \in EpochsRun : SavesTo(BestPath, e) # {}}
PeriodicSaveEpochs == {e \in EpochsRun : SavesTo(EpochPath(e), e) # {}}
PlotEpochs == {plots[i].epoch : i \in 1..Len(plots)}

\* The largest of 0 and the validation F1 values of the epochs before e.
RunningMax(e) == SetMax({0} \cup {ValF1(d) : d \in {x \in EpochsRun : x < e}})

\* e is an exact multiple of n.
IsMultiple(e, n) == \E k \in -e..e : e = k * n

\* C1: the "best" checkpoint is saved at an epoch exactly when the epoch's
\* validation F1 is strictly greater than the maximum of 0 and the validation
\* F1 of every earlier epoch of the call; a tie or an F1 of 0 saves nothing.
C1_BestSavedIffStrictlyGreater ==
    /\ \A e \in BestDone :
         /\ e \in BestSaveEpochs <=> ValF1(e) > RunningMax(e)
         /\ Cardinality(SavesTo(BestPath, e)) <= 1
    /\ \A i \in 1..Len(saves) : saves[i].path = BestPath => saves[i].epoch \in BestDone

\* A run of three epochs whose F1 rises, ties and rises again: the save is
\* triggered at epochs 1 and 3 and not at the tie of epoch 2.
C1_Witness ==
    /\ pc = "done"
    /\ epochs_run = <<1, 2, 3>>
    /\ ValF1(1) > 0
    /\ ValF1(2) = ValF1(1)
    /\ ValF1(3) > ValF1(2)
    /\ BestSaveEpochs = {1, 3}

\* C2 as stated: a per-epoch checkpoint is saved and plots are regenerated at
\* epoch e exactly when log_every is positive and e is a multiple of it.
C2_PeriodicIffPositiveMultiple ==
    \A e \in PeriodicDone :
        /\ e \in PeriodicSaveEpochs <=> (log_every > 0 /\ IsMultiple(e, log_every))
        /\ e \in PlotEpochs <=> (log_every > 0 /\ IsMultiple(e, log_every))

\* C2, amended: a per-epoch checkpoint named after e is saved and plots are
\* regenerated at epoch e exactly when log_every is not 0 and the absolute
\* epoch index e is an exact multiple of log_every (a negative log_every
\* acts as its absolute value).
C2_PeriodicIffNonzeroMultiple ==
    /\ \A e \in PeriodicDone :
         /\ e \in PeriodicSaveEpochs <=> (log_every # 0 /\ IsMultiple(e, log_every))
         /\ e \in PlotEpochs <=> (log_every # 0 /\ IsMultiple(e, log_every))
         /\ Cardinality(SavesTo(EpochPath(e), e)) <= 1
         /\ e \in PeriodicSaveEpochs =>
               /\ EpochPath(e) \in DOMAIN disk
               /\ disk[EpochPath(e)].epoch = e
    /\ \A i \in 1..Len(saves) :
         saves[i].path # BestPath =>
            /\ saves[i].path = EpochPath(saves[i].epoch)
            /\ saves[i].epoch \in PeriodicDone
    /\ PlotEpochs \subseteq PeriodicDone

\* A run resumed at epoch 2 with log_every = 2: the checkpoint is saved at
\* epoch 2, the first epoch of the run, and not at epoch 3.
C2_Witness ==
    /\ pc = "done"
    /\ start_epoch = 2
    /\ log_every = 2
    /\ epochs_run = <<2, 3>>
    /\ PeriodicSaveEpochs = {2}
    /\ PlotEpochs = {2}

\* C3: train processes exactly the epochs start_epoch..num_epochs, each once
\* and in increasing order, and returns the model as the last training pass
\* left it; when start_epoch > num_epochs it runs no pass, appends nothing
\* to the history and saves no checkpoint.
C3_EpochsInOrderThenReturn ==
    /\ \A i \in 1..Len(epochs_run) :
         /\ epochs_run[i] = start_epoch + i - 1
         /\ epochs_run[i] <= num_epochs
    /\ \A e \in EpochsRun :
         /\ Cardinality(ReportsOf("train", e)) <= 1
         /\ Cardinality(ReportsOf("val", e)) <= 1
    /\ pc \in {"train", "val", "history", "best", "periodic"} =>
         epoch = epochs_run[Len(epochs_run)]
    /\ pc = "done" =>
         /\ EpochsRun = start_epoch..num_epochs
         /\ \A e \in EpochsRun :
              /\ Cardinality(ReportsOf("train", e)) = 1
              /\ Cardinality(ReportsOf("val", e)) = 1
         /\ Len(trained) = Len(epochs_run)
         /\ returned = IF trained = <<>> THEN <<>> ELSE trained[Len(trained)]
         /\ start_epoch > num_epochs =>
              /\ reports = <<>>
              /\ history = history0
              /\ saves = <<>>
              /\ disk = PriorDisk(start_epoch)
              /\ plots = <<>>
    /\ pc # "done" => returned = None

\* A finished run of three epochs whose returned model is not the model of
\* the "best" checkpoint.
C3_Witness ==
    /\ pc = "done"
    /\ epochs_run = <<1, 2, 3>>
    /\ BestPath \in DOMAIN disk
    /\ disk[BestPath].epoch = 1
    /\ disk[BestPath].model # returned

\* C6: after k completed epochs every one of the ten history sequences is
\* the sequence passed in followed by the values of these k epochs, one per
\* epoch and in order; the passes leave the history alone.
C6_HistoryGrowsByOnePerEpoch ==
    /\ DOMAIN history = HistKeys
    /\ Cardinality(HistKeys) = 10
    /\ \A pre \in {"train", "val"}, n \in 1..Len(ResultNames) :
         LET k == HistKey(pre, ResultNames[n])
         IN  /\ Len(history[k]) = Len(history0[k]) + Cardinality(HistoryDone)
             /\ \A i \in 1..Len(history0[k]) : history[k][i] = history0[k][i]
             /\ \A e \in HistoryDone :
                  history[k][Len(history0[k]) + (e - start_epoch) + 1]
                     = ResultsOf(pre, e)[ResultNames[n]]

\* A resumed run (a history with earlier entries) that completed two epochs
\* with different validation results.
C6_Witness ==
    /\ pc = "done"
    /\ start_epoch = 2
    /\ epochs_run = <<2, 3>>
    /\ Len(history["val_f1"]) = 3
    /\ history["val_f1"][2] # history["val_f1"][3]
    /\ history["train_loss"][2] # history["val_loss"][2]

\* -------------------------------------------- claims on process_batches
\* The number of batches of a pass: len(dataset) / batch_size, rounded up.
NumBatches == (Len(dataset) + batch_size - 1) \div batch_size

\* The predictions of the forward passes, in the order of the dataset.
PredsByExample == [e \in 1..Len(dataset) |-> pred_of[e]]

\* A pass run step by step ends as the pass run as one step does.
PassAgrees ==
    pb_pc \in {"done", "fault"} =>
        LET out == process_batches(dataset, batch_size, is_training, consumed,
                                   pred_of, loss_of, <<>>, 0)
        IN  /\ out.fault = (pb_pc = "fault")
            /\ out.results = results
            /\ out.cm = cm
            /\ out.weights = weights

\* C4: a pass with is_training = False calls neither zero_grad nor backward
\* nor step for any batch and leaves the weights as they were; the weights
\* change only in a pass with is_training = True.
C4_EvalPassLeavesWeights ==
    ~is_training =>
        /\ weights = <<>>
        /\ \A i \in 1..Len(calls) : calls[i][1] = "forward"
        /\ pb_pc \notin {"zero_grad", "backward", "step"}

\* An evaluation pass over two batches has ended, the gradient buffer still
\* holding what it held before the pass.
C4_Witness ==
    /\ ~is_training
    /\ pb_pc = "done"
    /\ batch_no = 2
    /\ Len(calls) = 2
    /\ grad = 1

CallOrder == <<"forward", "zero_grad", "backward", "step">>

\* C5: in a training pass the calls of every batch are forward, zero_grad,
\* backward, step, once each and in this order, batch after batch; the pass
\* makes as many optimizer steps as there are batches, and every step applies
\* the gradient of one batch only.
C5_TrainingCallsInOrder ==
    is_training =>
        /\ \A i \in 1..Len(calls) :
             calls[i] = <<CallOrder[((i - 1) % 4) + 1], ((i - 1) \div 4) + 1>>
        /\ Len(weights) = Cardinality({i \in 1..Len(calls) : calls[i][1] = "step"})
        /\ \A i \in 1..Len(weights) : weights[i] = 1
        /\ pb_pc \in {"metrics", "done", "fault"} =>
             /\ Len(calls) = 4 * NumBatches
             /\ Len(weights) = NumBatches
             /\ batch_no = NumBatches

\* A training pass over three batches has ended.
C5_Witness ==
    /\ is_training
    /\ pb_pc = "done"
    /\ batch_no = 3
    /\ weights = <<1, 1, 1>>

\* C7: a pass consumes every example exactly once, the last and smaller
\* batch included; actual and predicted hold, at each index, the label and
\* the prediction of the same example; the metrics are computed once, at
\* the end, over the lists of the whole dataset.
C7_EveryExampleOnceMetricsAtEnd ==
    /\ pb_pc = "done" =>
         /\ Len(consumed) = Len(dataset)
         /\ {consumed[i] : i \in 1..Len(consumed)} = 1..Len(dataset)
         /\ Len(actual) = Len(dataset)
         /\ Len(predicted) = Len(dataset)
         /\ \A i \in 1..Len(dataset) :
              /\ actual[i] = dataset[consumed[i]]
              /\ predicted[i] = pred_of[consumed[i]]
         /\ metric_calls = 1
         /\ results.accuracy = accuracy_score(dataset, PredsByExample)
         /\ results.precision = precision_score(dataset, PredsByExample)
         /\ results.recall = recall_score(dataset, PredsByExample)
         /\ results.f1 = f1_score(dataset, PredsByExample)
    /\ pb_pc # "done" => metric_calls = 0 /\ results = None

\* A pass over three examples in batches of two, in a shuffled order, with
\* right and wrong predictions.
C7_Witness ==
    /\ pb_pc = "done"
    /\ Len(dataset) = 3
    /\ batch_size = 2
    /\ consumed = <<3, 1, 2>>
    /\ results.f1 \notin {0, Scale}
    /\ results.precision # results.recall

\* C8: the reported loss is the sum of the losses of all examples, as
\* accumulated batch by batch, divided by len(dataset), whatever the batches.
C8_LossIsTotalOverDatasetSize ==
    pb_pc = "done" =>
        /\ total_loss = SumOver(loss_of, 1..Len(dataset))
        /\ results.loss * Len(dataset) = Scale * SumOver(loss_of, 1..Len(dataset))

\* A pass over three examples in batches of two and one with loss sum 2:
\* the reported loss is 2/3.
C8_Witness ==
    /\ pb_pc = "done"
    /\ Len(dataset) = 3
    /\ batch_size = 2
    /\ total_loss = 2
    /\ 3 * results.loss = 2 * Scale

\* C9: the confusion matrix of a pass is 2x2 with rows (actual) and columns
\* (predicted) in the label order 0, 1: entry [i][j] counts the examples of
\* this pass with actual label i and predicted label j; for a dataset whose
\* labels are all 0 the row of label 1 is all zeros.
C9_ConfusionMatrixTwoByTwo ==
    pb_pc = "done" =>
        /\ DOMAIN cm = 1..2
        /\ \A i \in 1..2 :
             /\ DOMAIN cm[i] = 1..2
             /\ \A j \in 1..2 :
                  cm[i][j] = Cardinality({e \in 1..Len(dataset) :
                                 dataset[e] = i - 1 /\ pred_of[e] = j - 1})
        /\ (\A e \in 1..Len(dataset) : dataset[e] = 0) => cm[2] = <<0, 0>>

\* A pass over a dataset in which only label 0 occurs, actual and predicted.
C9_Witness ==
    /\ pb_pc = "done"
    /\ Len(dataset) = 2
    /\ \A e \in 1..Len(dataset) : dataset[e] = 0 /\ pred_of[e] = 0
    /\ cm = <<<<2, 0>>, <<0, 0>>>>

\* ---------------------------------------------------------- ABCNN1Block
\* A tensor of shape (batch, channels, length, size) is a sequence of
\* samples, each a sequence of channels, each a sequence of rows, each a
\* sequence of values. Averages are exact: every value is an integer number
\* of 1/Unit.
Unit == LCMUpTo(MaxLen + MaxWidth)

Shape(t) == <<Len(t), Len(t[1]), Len(t[1][1]), Len(t[1][1][1])>>

\* Row i of a channel, or a row of zeros outside of it (the padding of the
\* wide convolution).
RowOrZero(chan, i) ==
    IF i \in 1..Len(chan) THEN chan[i] ELSE [c \in 1..Len(chan[1]) |-> 0]

\* ABCNN1Attention: each output has two channels, the input and its
\* attention feature matrix, computed from the match scores of the rows of
\* the two sentences.
MatchScore(r1, r2) == SumSeq([c \in 1..Len(r1) |-> r1[c] * r2[c]])

AttentionFeature(s, other) ==
    [i \in 1..Len(s) |->
        [c \in 1..Len(s[1]) |->
            SumSeq([j \in 1..Len(other) |-> MatchScore(s[i], other[j]) * other[j][c]])]]

attn(x1, x2) ==
    [o1 |-> [b \in 1..Len(x1) |-> <<x1[b][1], AttentionFeature(x1[b][1], x2[b][1])>>],
     o2 |-> [b \in 1..Len(x2) |-> <<x2[b][1], AttentionFeature(x2[b][1], x1[b][1])>>]]

\* Convolution: a wide convolution of the layer's width over the rows, all
\* channels and values of a window weighted into each of the output values.
conv(layer, o) ==
    [b \in 1..Len(o) |->
        <<[t \in 1..(Len(o[b][1]) + layer.width - 1) |->
            [k \in 1..layer.output_size |->
                SumSeq([ch \in 1..Len(o[b]) |->
                    SumSeq([d \in 1..layer.width |->
                        SumSeq([c \in 1..Len(o[b][ch][1]) |->
                            layer.weight[k][ch][d][c]
                              * RowOrZero(o[b][ch], t - layer.width + d)[c]])])])]]>>]

\* WidthAP: the average of every window of the layer's width.
pool(layer, c) ==
    [b \in 1..Len(c) |->
        <<[i \in 1..(Len(c[b][1]) - layer.width + 1) |->
            [k \in 1..Len(c[b][1][1]) |->
                (SumSeq([d \in 1..layer.width |-> c[b][1][i + d - 1][k]]) * Unit)
                    \div layer.width]]>>]

\* AllAP: the average over all rows.
ap(c) ==
    [b \in 1..Len(c) |->
        [k \in 1..Len(c[b][1][1]) |->
            (SumSeq([t \in 1..Len(c[b][1]) |-> c[b][1][t][k]]) * Unit)
                \div Len(c[b][1])]]

\* nn.Dropout2d(p=0.5): when training, every channel of every sample is
\* zeroed where the mask says so and scaled by 1/(1 - p) elsewhere; the
\* identity otherwise.
DropoutScale == 2
dropout(training, mask, w) ==
    IF ~training THEN w
    ELSE [b \in 1..Len(w) |->
            [ch \in 1..Len(w[b]) |->
                [i \in 1..Len(w[b][ch]) |->
                    [k \in 1..Len(w[b][ch][i]) |->
                        IF mask[b][ch] THEN DropoutScale * w[b][ch][i][k] ELSE 0]]]]

\* A global pooling of the dropped-out w instead.
GlobalPoolDropped(c, w) == w

\* Line 51: the tensor the global pooling is applied to.
GlobalPoolInput(c, w) == c

\* A second convolution for the second branch, with other weights.
ConvPerBranch(layer, branch) ==
    IF branch = 1 THEN layer
    ELSE [layer EXCEPT !.weight =
            [k \in DOMAIN layer.weight |-> [ch \in DOMAIN layer.weight[k] |->
                [d \in DOMAIN layer.weight[k][ch] |->
                    [c \in DOMAIN layer.weight[k][ch][d] |->
                        layer.weight[k][ch][d][c] + 1]]]]]

\* Line 48: the convolution applied to branch 1 and to branch 2 is the one
\* module self.conv.
ConvOf(layer, branch) == layer

\* A block that hands the convolution output on without the width pooling.
WidthPoolSkipped(layer, c) == c

\* Line 49: the width pooling self.pool of a convolution output.
WidthPool(layer, c) == pool(layer, c)

\* Lines 48-52: the two branches after the attention; p1, p2 are w1, w2
\* before the dropout of line 50.
Branches(layer, training, o1, o2, mask1, mask2) ==
    LET c1 == conv(ConvOf(layer, 1), o1)
        c2 == conv(ConvOf(layer, 2), o2)
        p1 == WidthPool(layer, c1)
        p2 == WidthPool(layer, c2)
        w1 == dropout(training, mask1, p1)
        w2 == dropout(training, mask2, p2)
    IN  [o1 |-> o1, o2 |-> o2, c1 |-> c1, c2 |-> c2, p1 |-> p1, p2 |-> p2,
         w1 |-> w1, w2 |-> w2,
         a1 |-> ap(GlobalPoolInput(c1, w1)), a2 |-> ap(GlobalPoolInput(c2, w2)),
         mask1 |-> mask1, mask2 |-> mask2]

\* Lines 47-52.
forward(layer, training, x1, x2, mask1, mask2) ==
    LET o == attn(x1, x2)
    IN  Branches(layer, training, o.o1, o.o2, mask1, mask2)

\* The sentences of max_length len and input_size size: word vectors
\* followed by zero vectors as padding.
Words(size) == {[c \in 1..size |-> 1], [c \in 1..size |-> 2]}
Sentences(len, size) ==
    {s \in [1..len -> Words(size) \cup {[c \in 1..size |-> 0]}] :
        \A i \in 1..(len - 1) : s[i] = [c \in 1..size |-> 0] => s[i + 1] = s[i]}

\* The sentences in which one word is repeated.
PlainSentences(len, size) ==
    {s \in Sentences(len, size) : \A i \in 1..len : s[i][1] <= 1}

\* The convolution layers: a width, an output size and the weights.
ConvLayers(size) ==
    {[width |-> w, output_size |-> n,
      weight |-> [k \in 1..n |-> [ch \in 1..2 |-> [d \in 1..w |->
                    [c \in 1..size |-> k + ch + d + c - 3]]]]] :
        w \in 1..MaxWidth, n \in 1..MaxOut}

\* A block and a batch of one sentence pair, the first sentence a plain one.
BlockInit ==
    /\ PBIdle
    /\ loss_fn = "any"
    /\ batch_size = 1
    /\ weights = <<>>
    /\ grad = 0
    /\ TrainIdle
    /\ \E len \in 1..MaxLen, size \in 1..MaxChan :
         /\ \E s1 \in PlainSentences(len, size), s2 \in Sentences(len, size) :
              /\ blk_x1 = <<<<s1>>>>
              /\ blk_x2 = <<<<s2>>>>
         /\ blk_conv \in ConvLayers(size)
    /\ blk_training \in BOOLEAN
    /\ blk_out = <<>>

\* The masks a dropout draws for a tensor of one channel: one choice per
\* sample when training, none (every channel kept) otherwise.
Masks(training, batch) ==
    [1..batch -> [1..1 -> IF training THEN BOOLEAN ELSE {TRUE}]]

\* A call of forward on the block's inputs; the dropout draws its masks.
ForwardRun ==
    /\ Len(blk_out) < 2
    /\ \E mask1, mask2 \in Masks(blk_training, Len(blk_x1)) :
         blk_out' = Append(blk_out,
                      forward(blk_conv, blk_training, blk_x1, blk_x2, mask1, mask2))
    /\ UNCHANGED <<blk_x1, blk_x2, blk_conv, blk_training>>
    /\ UNCHANGED <<pbvars, trainvars>>

BlockNext == ForwardRun

SpecBlock == BlockInit /\ [][BlockNext]_vars

\* C10: a1, a2 are the global pooling of the convolution outputs c1, c2, so
\* two forward runs on the same inputs and weights that differ only in the
\* dropout masks return the same a1, a2.
C10_GlobalPoolIgnoresDropout ==
    \A i, j \in 1..Len(blk_out) :
        /\ blk_out[i].a1 = blk_out[j].a1
        /\ blk_out[i].a2 = blk_out[j].a2
        /\ blk_out[i].a1 = ap(blk_out[i].c1)
        /\ blk_out[i].a2 = ap(blk_out[i].c2)

\* Two runs in training mode with different masks: w1 and w2 differ between
\* the runs, a1 and a2 are not zero.
C10_Witness ==
    /\ blk_training
    /\ Len(blk_out) = 2
    /\ blk_out[1].mask1 # blk_out[2].mask1
    /\ blk_out[1].mask2 # blk_out[2].mask2
    /\ blk_out[1].w1 # blk_out[2].w1
    /\ blk_out[1].w2 # blk_out[2].w2
    /\ \E k \in 1..Len(blk_out[1].a1[1]) : blk_out[1].a1[1][k] # 0

\* t is a tensor of shape (b, ch, l, c).
HasShape(t, b, ch, l, c) ==
    /\ Len(t) = b
    /\ \A i \in 1..b :
         /\ Len(t[i]) = ch
         /\ \A j \in 1..ch :
              /\ Len(t[i][j]) = l
              /\ \A r \in 1..l : Len(t[i][j][r]) = c

\* The tensor of the shape of t whose values are all 1.
OnesLike(t) ==
    [i \in 1..Len(t) |-> [j \in 1..Len(t[i]) |-> [r \in 1..Len(t[i][j]) |->
        [c \in 1..Len(t[i][j][r]) |-> 1]]]]

\* C11: for inputs x1, x2 of shape (batch, 1, L, C) and a convolution and
\* pooling of width w >= 1, forward passes through the shapes (batch, 2, L, C)
\* after the attention and (batch, 1, L + w - 1, output_size) after the
\* convolution and returns w1, w2 of shape (batch, 1, L, output_size) and
\* a1, a2 of shape (batch, output_size); a next block whose input size is
\* output_size accepts tensors of the shape of w1, w2 (checked on the
\* first output, every output being of that shape) and returns the length
\* L again.
C11_ShapesThroughBlock ==
    LET B == Len(blk_x1)
        L == Len(blk_x1[1][1])
        C == Len(blk_x1[1][1][1])
        w == blk_conv.width
        n == blk_conv.output_size
    IN  /\ \A i \in 1..Len(blk_out) :
             LET out == blk_out[i]
             IN  /\ HasShape(blk_x1, B, 1, L, C) /\ HasShape(blk_x2, B, 1, L, C)
                 /\ w >= 1
                 /\ HasShape(out.o1, B, 2, L, C) /\ HasShape(out.o2, B, 2, L, C)
                 /\ HasShape(out.c1, B, 1, L + w - 1, n)
                 /\ HasShape(out.c2, B, 1, L + w - 1, n)
                 /\ HasShape(out.w1, B, 1, L, n) /\ HasShape(out.w2, B, 1, L, n)
                 /\ Len(out.a1) = B /\ Len(out.a2) = B
                 /\ \A b \in 1..B : Len(out.a1[b]) = n /\ Len(out.a2[b]) = n
        /\ Len(blk_out) = 1 =>
             \A next \in {l \in ConvLayers(n) : l.output_size = n} :
                 LET stacked == forward(next, FALSE, OnesLike(blk_out[1].w1),
                                        OnesLike(blk_out[1].w2),
                                        blk_out[1].mask1, blk_out[1].mask2)
                 IN  /\ Shape(stacked.w1) = <<B, 1, L, n>>
                     /\ Shape(stacked.w2) = <<B, 1, L, n>>

\* A block of width 2 on sentences of length 2: the convolution output has
\* length 3 and two values per row, w1 has length 2 again.
C11_Witness ==
    /\ Len(blk_out) >= 1
    /\ blk_conv.width = 2
    /\ blk_conv.output_size = 2
    /\ Shape(blk_x1) = <<1, 1, 2, 1>>
    /\ Shape(blk_out[1].o1) = <<1, 2, 2, 1>>
    /\ Shape(blk_out[1].c1) = <<1, 1, 3, 2>>
    /\ Shape(blk_out[1].w1) = <<1, 1, 2, 2>>
    /\ Len(blk_out[1].a1[1]) = 2

\* C12: both branches go through the same convolution, width pooling and
\* global pooling: when the attention outputs are equal, c1 = c2, a1 = a2 and
\* w1 = w2 before the dropout; the branches run on o2, o1 return (c2, a2) as
\* their first and (c1, a1) as their second result.
C12_BranchesShareModules ==
    \A i \in 1..Len(blk_out) :
        LET out == blk_out[i]
            swapped == Branches(blk_conv, blk_training, out.o2, out.o1,
                                out.mask2, out.mask1)
        IN  /\ out.o1 = out.o2 =>
                  /\ out.c1 = out.c2
                  /\ out.a1 = out.a2
                  /\ out.p1 = out.p2
            /\ swapped.c1 = out.c2 /\ swapped.a1 = out.a2
            /\ swapped.c2 = out.c1 /\ swapped.a2 = out.a1
            /\ swapped.p1 = out.p2 /\ swapped.p2 = out.p1

\* Two different sentences: the branches differ in every result, and the
\* dropout of a training run zeroes w1 only.
C12_Witness ==
    /\ Len(blk_out) >= 1
    /\ blk_training
    /\ blk_out[1].o1 # blk_out[1].o2
    /\ blk_out[1].c1 # blk_out[1].c2
    /\ blk_out[1].a1 # blk_out[1].a2
    /\ blk_out[1].p1 # blk_out[1].p2
    /\ ~blk_out[1].mask1[1][1]
    /\ blk_out[1].mask2[1][1]

\* Two equal non-zero sentences in a training run whose dropout zeroes w1
\* only: p1 = p2 and w1 # w2.
C12_EqualBranches ==
    /\ Len(blk_out) >= 1
    /\ blk_training
    /\ blk_out[1].o1 = blk_out[1].o2
    /\ blk_out[1].p1 = blk_out[1].p2
    /\ blk_out[1].w1 # blk_out[1].w2

\* ------------------------------------------------ claims on checkpoints
\* Lines 62-71: the calls with batch_size 1, in which every example of a
\* training pass is an optimizer step.
CkptInit == TrainInit /\ batch_size = 1

SpecCkpt == CkptInit /\ [][Next]_vars

\* Lines 74, 124-137: the save_checkpoint calls of the epochs e..last of a
\* call whose validation F1 at epoch d is f1[d], with the tracker at best.
RECURSIVE SavesFrom(_, _, _, _, _)
SavesFrom(e, last, every, f1, best) ==
    IF e > last THEN <<>>
    ELSE LET new == IsNewBest(f1[e], best)
         IN  (IF new THEN <<[path |-> BestPath, epoch |-> e]>> ELSE <<>>)
             \o (IF IsLogEpoch(every, e)
                 THEN <<[path |-> EpochPath(e), epoch |-> e]>> ELSE <<>>)
             \o SavesFrom(e + 1, last, every, f1, IF new THEN f1[e] ELSE best)

\* The epochs of the save_checkpoint calls of a log to the best path.
BestEpochsOf(log) == {log[i].epoch : i \in {j \in 1..Len(log) : log[j].path = BestPath}}

\* The validation F1 of the epochs run, by epoch.
ValF1Seq == [e \in EpochsRun |-> ValF1(e)]

\* C13: the epochs at which the best checkpoint is saved do not depend on
\* log_every: after every completed epoch, a call with the same start epoch
\* and the same validation F1 values and any other log_every, 0 included,
\* saves the best checkpoint at the epochs this call did.
C13_BestSavesIndependentOfLogEvery ==
    pc \in {"loop", "done"} /\ EpochsRun # {} =>
        /\ saves = SavesFrom(start_epoch, start_epoch + Len(epochs_run) - 1,
                             log_every, ValF1Seq, 0)
        /\ \A every \in -MaxLogEvery..MaxLogEvery :
             BestEpochsOf(SavesFrom(start_epoch, start_epoch + Len(epochs_run) - 1,
                                    every, ValF1Seq, 0))
               = BestEpochsOf(saves)

\* A finished call with periodic checkpoints whose epochs are not those of
\* the best checkpoint.
C13_Witness ==
    /\ pc = "done"
    /\ log_every # 0
    /\ Len(epochs_run) >= 2
    /\ PeriodicSaveEpochs # {}
    /\ BestSaveEpochs # {}
    /\ PeriodicSaveEpochs \cap BestSaveEpochs = {}

\* The position of the call of epoch e to filepath f in the log of saves.
SaveIndex(f, e) == CHOOSE i \in SavesTo(f, e) : TRUE

\* The model the training pass of epoch e left.
TrainedAt(e) == trained[e - start_epoch + 1]

\* The checkpoint ck holds the values of its epoch as the last values of its
\* history, and the model of its epoch.
CarriesItsEpoch(ck) ==
    /\ ck.epoch \in EpochsRun
    /\ LET tr == ResultsOf("train", ck.epoch)
           va == ResultsOf("val", ck.epoch)
       IN  \A i \in 1..Len(ResultNames) :
             /\ Len(ck.history[HistKey("train", ResultNames[i])]) = ck.epoch
             /\ Len(ck.history[HistKey("val", ResultNames[i])]) = ck.epoch
             /\ ck.history[HistKey("train", ResultNames[i])][ck.epoch] = tr[ResultNames[i]]
             /\ ck.history[HistKey("val", ResultNames[i])][ck.epoch] = va[ResultNames[i]]
    /\ ck.model = TrainedAt(ck.epoch)

\* C14: the steps of an epoch run in the order training pass, validation
\* pass on the model the training pass left, history append, best save,
\* periodic save and plots: no step of an epoch has acted while an earlier
\* one has not, every checkpoint carries a history that ends with the values
\* of its epoch, and when both saves fire in an epoch the best one is
\* written first, with the same model, history and epoch number.
C14_EpochStepsInOrder ==
    /\ \A e \in EpochsRun :
         LET tr   == ReportsOf("train", e)
             va   == ReportsOf("val", e)
             best == SavesTo(BestPath, e)
             per  == SavesTo(EpochPath(e), e)
             appended == Len(history[HistKey("val", "f1")]) >= e
         IN  /\ va # {} =>
                   /\ tr # {}
                   /\ \A i \in tr, j \in va : i < j
                   /\ Len(trained) >= e - start_epoch + 1
             /\ appended => va # {}
             /\ best # {} => appended
             /\ per # {} =>
                   /\ appended
                   /\ \A i \in best, j \in per : i < j
                   /\ best_val_f1 >= ValF1(e)
             /\ e \in PlotEpochs <=> per # {}
             /\ (best # {} /\ per # {} /\ disk[BestPath].epoch = e) =>
                   disk[BestPath] = disk[EpochPath(e)]
    /\ pc \in {"val", "history", "best", "periodic"} =>
         /\ weights = trained[Len(trained)]
         /\ Len(trained) = Len(epochs_run)
    /\ \A f \in {saves[i].path : i \in 1..Len(saves)} : CarriesItsEpoch(disk[f])
    /\ \A i \in 1..Len(plots) :
         plots[i].history = disk[EpochPath(plots[i].epoch)].history

\* Epoch 2 of a call has saved both checkpoints, after a first epoch that
\* trained the model too.
C14_Witness ==
    /\ pc = "loop"
    /\ epochs_run = <<1, 2>>
    /\ SavesTo(BestPath, 2) # {}
    /\ SavesTo(EpochPath(2), 2) # {}
    /\ SaveIndex(BestPath, 2) < SaveIndex(EpochPath(2), 2)
    /\ disk[BestPath] = disk[EpochPath(2)]
    /\ disk[BestPath].model # TrainedAt(1)
    /\ Len(disk[BestPath].history[HistKey("val", "f1")]) = 2

\* The largest of 0 and the validation F1 values of the epochs whose
\* best-checkpoint step has run.
MaxSoFar == SetMax({0} \cup {ValF1(e) : e \in BestDone})

\* The files written by this call that are not the checkpoint of an epoch.
BestSlots == {f \in DOMAIN disk : \A e \in EpochsRun : f # EpochPath(e)}

\* C15: after the best-checkpoint step of every epoch the tracker is the
\* largest of 0 and the validation F1 values seen so far in this call, so it
\* is never below any of them; there is one best slot, written by this call
\* exactly when the tracker has left 0, and it then holds the checkpoint of
\* the earliest epoch whose validation F1 equals the tracker.
C15_TrackerIsRunningMax ==
    /\ best_val_f1 = MaxSoFar
    /\ \A e \in BestDone : best_val_f1 >= ValF1(e)
    /\ BestSlots \subseteq {BestPath}
    /\ BestSaveEpochs # {} <=> best_val_f1 > 0
    /\ BestSaveEpochs = {} =>
          /\ BestPath \in DOMAIN disk <=> BestPath \in DOMAIN PriorDisk(start_epoch)
          /\ BestPath \in DOMAIN disk => disk[BestPath] = PriorDisk(start_epoch)[BestPath]
    /\ BestSaveEpochs # {} =>
          LET first == CHOOSE e \in BestDone :
                          /\ ValF1(e) = best_val_f1
                          /\ \A d \in BestDone : ValF1(d) = best_val_f1 => e <= d
          IN  /\ disk[BestPath].epoch = first
              /\ disk[BestPath].model = TrainedAt(first)
              /\ disk[BestPath].history[HistKey("val", "f1")][first] = best_val_f1

\* Three epochs whose validation F1 is high, lower and as high as at first:
\* the slot still holds the checkpoint of epoch 1.
C15_Witness ==
    /\ pc = "done"
    /\ epochs_run = <<1, 2, 3>>
    /\ ValF1(2) < ValF1(1)
    /\ ValF1(3) = ValF1(1)
    /\ best_val_f1 = ValF1(1)
    /\ disk[BestPath].epoch = 1
    /\ BestSaveEpochs = {1}

\* ------------------------------------------------- train with failures
\* train() with its passes run step by step, in which the model, the loss
\* function or the optimizer may raise in a batch, save_checkpoint and
\* generate_plots may fail, and a dataset may be empty. Neither train nor
\* process_batches has a try statement: an exception leaves both.
FaultTrainSet == <<1, 1>>
FaultValSet == <<1>>

\* The positions at which train has ended with an exception.
Faults == {"fault", "fault_best", "fault_periodic", "fault_plots"}

\* The model at the time the pass under way was called.
WeightsAtCall == IF trained = <<>> THEN <<>> ELSE trained[Len(trained)]

\* A file whose writing did not complete.
Partial == [partial |-> TRUE]

\* The disk after a save_checkpoint to filepath that failed: the file is
\* as it was, or it is partly written.
FailedWrite(d, filepath) ==
    {d, [f \in DOMAIN d \cup {filepath} |-> IF f = filepath THEN Partial ELSE d[f]]}

\* Lines 62-71: the call; a dataset may be empty.
FaultInit ==
    /\ PBIdle
    /\ BlockIdle
    /\ loss_fn = "zero_one"
    /\ batch_size = 1
    /\ weights = <<>>
    /\ grad = 0
    /\ trainset \in {<<>>, FaultTrainSet}
    /\ valset \in {<<>>, FaultValSet}
    /\ start_epoch = 1
    /\ num_epochs = MaxFaultEpochs
    /\ log_every \in {0, 1}
    /\ range_next = start_epoch
    /\ epoch = None
    /\ pc = "loop"
    /\ history = PriorHistory(start_epoch)
    /\ history0 = history
    /\ best_val_f1 = InitialBest(history)
    /\ train_results = None
    /\ val_results = None
    /\ returned = None
    /\ disk = PriorDisk(start_epoch)
    /\ saves = <<>>
    /\ plots = <<>>
    /\ reports = <<>>
    /\ epochs_run = <<>>
    /\ trained = <<>>

\* Lines 77-79, 98-100 and 204-214: train calls process_batches on the
\* training set with is_training = True or on the validation set with
\* is_training = False; the call sets up its locals and the DataLoader.
CallPass ==
    /\ pc \in {"train", "val"}
    /\ pb_pc = "idle"
    /\ dataset' = (IF pc = "train" THEN trainset ELSE valset)
    /\ is_training' = (pc = "train")
    /\ \E order \in Perms(Len(IF pc = "train" THEN trainset ELSE valset)) :
         dataloader' = DataLoader(IF pc = "train" THEN trainset ELSE valset,
                                  batch_size, order)
    /\ total_loss' = 0
    /\ actual' = <<>>
    /\ predicted' = <<>>
    /\ pb_pc' = "loop"
    /\ UNCHANGED <<loss_fn, batch_size, features, targets, predictions,
                   batch_loss, results, cm, weights, grad, consumed, pred_of,
                   loss_of, calls, batch_no, metric_calls>>
    /\ UNCHANGED <<trainvars, blockvars>>

\* Lines 260-262, 77-95 and 98-116: process_batches returns, its locals are
\* gone, and train reports the results.
ReturnPass ==
    /\ pc \in {"train", "val"}
    /\ pb_pc = "done"
    /\ IF pc = "train"
       THEN /\ train_results' = results
            /\ trained' = Append(trained, weights)
            /\ pc' = "val"
            /\ UNCHANGED val_results
       ELSE /\ val_results' = results
            /\ pc' = "history"
            /\ UNCHANGED <<train_results, trained>>
    /\ reports' = Append(reports, [pass |-> pc, epoch |-> epoch, results |-> results])
    /\ dataset' = <<>>
    /\ is_training' = FALSE
    /\ pb_pc' = "idle"
    /\ dataloader' = <<>>
    /\ features' = <<>>
    /\ targets' = <<>>
    /\ predictions' = <<>>
    /\ batch_loss' = 0
    /\ total_loss' = 0
    /\ actual' = <<>>
    /\ predicted' = <<>>
    /\ results' = None
    /\ cm' = None
    /\ consumed' = <<>>
    /\ pred_of' = <<>>
    /\ loss_of' = <<>>
    /\ calls' = <<>>
    /\ batch_no' = 0
    /\ metric_calls' = 0
    /\ UNCHANGED <<loss_fn, batch_size, weights, grad>>
    /\ UNCHANGED <<trainset, valset, start_epoch, num_epochs, log_every,
                   range_next, epoch, history, best_val_f1, returned, disk,
                   saves, plots, history0, epochs_run>>
    /\ UNCHANGED blockvars

\* A pass that undoes the optimizer steps of its earlier batches when a
\* batch raises.
RaiseRolledBack ==
    /\ pb_pc \in {"forward", "zero_grad", "backward", "step"}
    /\ pb_pc' = "raised"
    /\ weights' = WeightsAtCall
    /\ UNCHANGED <<dataset, loss_fn, batch_size, is_training, dataloader,
                   features, targets, predictions, batch_loss, total_loss,
                   actual, predicted, results, cm, grad, consumed, pred_of,
                   loss_of, calls, batch_no, metric_calls>>
    /\ UNCHANGED <<trainvars, blockvars>>

\* Lines 224-239: the call under way in the batch (the model and the loss
\* function at "forward", optimizer.zero_grad, batch_loss.backward,
\* optimizer.step) raises; process_batches ends at that line.
Raise ==
    /\ pb_pc \in {"forward", "zero_grad", "backward", "step"}
    /\ pb_pc' = "raised"
    /\ UNCHANGED <<dataset, loss_fn, batch_size, is_training, dataloader,
                   features, targets, predictions, batch_loss, total_loss,
                   actual, predicted, results, cm, weights, grad, consumed,
                   pred_of, loss_of, calls, batch_no, metric_calls>>
    /\ UNCHANGED <<trainvars, blockvars>>

\* Lines 77-79, 98-100: the exception of process_batches leaves train.
Propagate ==
    /\ pc \in {"train", "val"}
    /\ pb_pc \in {"raised", "fault"}
    /\ pc' = "fault"
    /\ UNCHANGED <<trainset, valset, start_epoch, num_epochs, log_every,
                   range_next, epoch, history, best_val_f1, train_results,
                   val_results, returned, disk, saves, plots, reports,
                   history0, epochs_run, trained>>
    /\ UNCHANGED <<pbvars, blockvars>>

\* Lines 125-129: save_checkpoint fails for the best checkpoint, after
\* line 126 has set the tracker.
FailBestSave ==
    /\ pc = "best"
    /\ IsNewBest(val_results.f1, best_val_f1)
    /\ best_val_f1' = val_results.f1
    /\ disk' \in FailedWrite(disk, BestPath)
    /\ pc' = "fault_best"
    /\ UNCHANGED <<trainset, valset, start_epoch, num_epochs, log_every,
                   range_next, epoch, history, train_results, val_results,
                   returned, saves, plots, reports, history0, epochs_run,
                   trained>>
    /\ UNCHANGED <<pbvars, blockvars>>

\* A train that catches the failure of the periodic save and goes on.
FailPeriodicSaveCaught ==
    /\ pc = "periodic"
    /\ IsLogEpoch(log_every, epoch)
    /\ disk' \in FailedWrite(disk, EpochPath(epoch))
    /\ pc' = "loop"
    /\ UNCHANGED <<trainset, valset, start_epoch, num_epochs, log_every,
                   range_next, epoch, history, best_val_f1, train_results,
                   val_results, returned, saves, plots, reports, history0,
                   epochs_run, trained>>
    /\ UNCHANGED <<pbvars, blockvars>>

\* Lines 132-135: save_checkpoint fails for the checkpoint of the epoch.
FailPeriodicSave ==
    /\ pc = "periodic"
    /\ IsLogEpoch(log_every, epoch)
    /\ disk' \in FailedWrite(disk, EpochPath(epoch))
    /\ pc' = "fault_periodic"
    /\ UNCHANGED <<trainset, valset, start_epoch, num_epochs, log_every,
                   range_next, epoch, history, best_val_f1, train_results,
                   val_results, returned, saves, plots, reports, history0,
                   epochs_run, trained>>
    /\ UNCHANGED <<pbvars, blockvars>>

\* Lines 132-137: the checkpoint of the epoch is saved and generate_plots
\* fails.
FailPlots ==
    /\ pc = "periodic"
    /\ IsLogEpoch(log_every, epoch)
    /\ disk' = save_checkpoint(disk, weights, grad, history, epoch,
                               EpochPath(epoch))
    /\ saves' = Append(saves, [path |-> EpochPath(epoch), epoch |-> epoch])
    /\ pc' = "fault_plots"
    /\ UNCHANGED <<trainset, valset, start_epoch, num_epochs, log_every,
                   range_next, epoch, history, best_val_f1, train_results,
                   val_results, returned, plots, reports, history0,
                   epochs_run, trained>>
    /\ UNCHANGED <<pbvars, blockvars>>

FaultNext ==
    \/ LoopHead \/ CallPass
    \/ NextBatch \/ Forward \/ ZeroGrad \/ Backward \/ Step \/ Metrics
    \/ Raise \/ Propagate \/ ReturnPass
    \/ UpdateHistory \/ UpdateBest \/ FailBestSave
    \/ Periodic \/ FailPeriodicSave \/ FailPlots

SpecFault == FaultInit /\ [][FaultNext]_vars

\* ------------------------------------------ claims on train with failures
\* The current epoch has left no trace: no value in the history, no
\* checkpoint, no plots; train has not returned and takes no further step.
EpochLeftNothing ==
    /\ \A k \in HistKeys : Len(history[k]) = epoch - 1
    /\ \A i \in 1..Len(saves) : saves[i].epoch # epoch
    /\ \A f \in DOMAIN disk : disk[f] # Partial /\ disk[f].epoch # epoch
    /\ epoch \notin PlotEpochs
RunEnded ==
    /\ returned = None
    /\ epochs_run[Len(epochs_run)] = epoch
    /\ ~ENABLED FaultNext

\* C16: when a call of batch k raises, process_batches ends at once: the
\* batches after k are not drawn, no call is made twice, no metrics and no
\* confusion matrix exist, and the model keeps the optimizer steps of the
\* batches 1..k-1; the exception leaves train, whose epoch has appended
\* nothing to the history and saved nothing, and no later epoch runs.
C16_RaiseEndsPassAndRun ==
    /\ pb_pc = "raised" =>
          /\ batch_no >= 1
          /\ Len(dataloader) = NumBatches - batch_no
          /\ \A i \in 1..Len(calls) : calls[i][2] <= batch_no
          /\ \A i, j \in 1..Len(calls) : calls[i] = calls[j] => i = j
          /\ results = None /\ cm = None /\ metric_calls = 0
          /\ IF is_training
             THEN /\ Len(weights) = Len(WeightsAtCall) + batch_no - 1
                  /\ SubSeq(weights, 1, Len(WeightsAtCall)) = WeightsAtCall
             ELSE weights = WeightsAtCall
          /\ pc \in {"train", "val", "fault"}
          /\ ~ENABLED (CallPass \/ PBNext \/ ReturnPass \/ LoopHead
                        \/ UpdateHistory \/ UpdateBest \/ Periodic)
    /\ (pc = "fault" /\ pb_pc = "raised") => EpochLeftNothing /\ RunEnded

\* The optimizer step of batch 2 of the first training pass raises with an
\* epoch still to run: the model holds the step of batch 1.
C16_Witness ==
    /\ pc = "fault"
    /\ pb_pc = "raised"
    /\ is_training
    /\ epoch = 1
    /\ range_next <= num_epochs
    /\ batch_no = 2
    /\ calls[Len(calls)] = <<"backward", 2>>
    /\ Len(weights) = 1
    /\ history = history0

\* The checkpoint of the current epoch, as save_checkpoint writes it.
CheckpointNow == [model |-> weights, optimizer |-> grad, history |-> history,
                  epoch |-> epoch]

\* The history ends with the values the passes of the current epoch returned.
HistoryHoldsEpoch ==
    \A i \in 1..Len(ResultNames) :
        /\ Len(history[HistKey("train", ResultNames[i])]) = epoch
        /\ Len(history[HistKey("val", ResultNames[i])]) = epoch
        /\ history[HistKey("train", ResultNames[i])][epoch] = train_results[ResultNames[i]]
        /\ history[HistKey("val", ResultNames[i])][epoch] = val_results[ResultNames[i]]

\* C17: when save_checkpoint or generate_plots fails in epoch e, train ends
\* there and undoes nothing: the history holds the values of epoch e, the
\* model is the one trained in epoch e, a best checkpoint written in epoch e
\* is on disk as written, the saves and plots after the failing call were not
\* made, and no later epoch runs; an epoch that went on to the next one has
\* made its periodic save and plots.
C17_SaveFailureEndsRun ==
    /\ pc \in {"fault_best", "fault_periodic", "fault_plots"} =>
          /\ HistoryHoldsEpoch
          /\ weights = TrainedAt(epoch)
          /\ epoch \notin PlotEpochs
          /\ RunEnded
    /\ pc = "fault_best" =>
          /\ SavesTo(BestPath, epoch) = {}
          /\ SavesTo(EpochPath(epoch), epoch) = {}
          /\ EpochPath(epoch) \notin DOMAIN disk
    /\ pc = "fault_periodic" => SavesTo(EpochPath(epoch), epoch) = {}
    /\ pc = "fault_plots" => disk[EpochPath(epoch)] = CheckpointNow
    /\ (pc \in {"fault_periodic", "fault_plots"} /\ SavesTo(BestPath, epoch) # {}) =>
          disk[BestPath] = CheckpointNow
    /\ \A e \in PeriodicDone :
          IsLogEpoch(log_every, e) =>
              /\ SavesTo(EpochPath(e), e) # {}
              /\ disk[EpochPath(e)] # Partial
              /\ e \in PlotEpochs

\* The periodic save of epoch 1 fails after the best checkpoint of epoch 1
\* was written, with an epoch still to run.
C17_Witness ==
    /\ pc = "fault_periodic"
    /\ epoch = 1
    /\ range_next <= num_epochs
    /\ SavesTo(BestPath, 1) # {}
    /\ disk[BestPath].epoch = 1
    /\ EpochPath(1) \in DOMAIN disk
    /\ disk[EpochPath(1)] = Partial
    /\ Len(history[HistKey("val", "f1")]) = 1
    /\ Len(weights) = 2

\* C18: process_batches on an empty dataset draws no batch and ends in a
\* fault at the division of line 242, with no metrics and no confusion
\* matrix; train ends with it, with nothing of the epoch in the history and
\* no checkpoint of the epoch, and no later epoch runs.
C18_EmptyDatasetFaults ==
    /\ (pb_pc # "idle" /\ Len(dataset) = 0) =>
          /\ pb_pc \in {"loop", "metrics", "fault"}
          /\ calls = <<>> /\ batch_no = 0 /\ total_loss = 0
          /\ results = None /\ cm = None /\ metric_calls = 0
          /\ weights = WeightsAtCall
    /\ pb_pc = "fault" => Len(dataset) = 0
    /\ (pc = "fault" /\ pb_pc = "fault") => EpochLeftNothing /\ RunEnded
    /\ \A training \in BOOLEAN :
          LET out == process_batches(<<>>, batch_size, training, <<>>, <<>>, <<>>,
                                     weights, grad)
          IN  out.fault /\ out.results = None /\ out.cm = None
                 /\ out.weights = weights
    /\ trainset = <<>> => reports = <<>> /\ pc \in {"loop", "train", "fault"}
    /\ valset = <<>> =>
          /\ \A i \in 1..Len(reports) : reports[i].pass = "train"
          /\ pc \in {"loop", "train", "val", "fault"}
    /\ (trainset = <<>> \/ valset = <<>>) =>
          /\ history = history0
          /\ disk = <<>> /\ saves = <<>> /\ plots = <<>>
          /\ Len(epochs_run) <= 1

\* The validation set is empty: the first epoch trains the model, the
\* validation pass faults and the call ends with an epoch still to run.
C18_Witness ==
    /\ pc = "fault"
    /\ pb_pc = "fault"
    /\ valset = <<>>
    /\ trainset # <<>>
    /\ is_training = FALSE
    /\ epoch = 1
    /\ range_next <= num_epochs
    /\ Len(reports) = 1
    /\ Len(weights) = 2
    /\ history = history0

\* ------------------------------------------------- claims on resumed runs
\* Lines 62-71: the calls that resume an earlier run.
ResumeInit == TrainInit /\ start_epoch > 1

SpecResume == ResumeInit /\ [][Next]_vars

\* The best validation F1 the history passed in records.
PriorBestF1 ==
    SetMax({0} \cup {history0[HistKey("val", "f1")][i] :
                        i \in 1..Len(history0[HistKey("val", "f1")])})

\* The first epoch of this call whose validation F1 is above 0.
IsFirstPositive(e) ==
    /\ ValF1(e) > 0
    /\ \A d \in EpochsRun : d < e => ValF1(d) = 0

\* C19: every call starts the tracker at 0, whatever start_epoch and the
\* history passed in are: the first epoch of the call whose validation F1 is
\* above 0 saves the best checkpoint, replacing the one an earlier run left,
\* also when the history records a higher validation F1 of that run.
C19_TrackerStartsAtZero ==
    /\ BestDone = {} => best_val_f1 = 0
    /\ \A e \in BestDone :
          IsFirstPositive(e) =>
              /\ SavesTo(BestPath, e) # {}
              /\ disk[BestPath].epoch >= e
              /\ start_epoch > 1 =>
                    disk[BestPath] # PriorDisk(start_epoch)[BestPath]

\* A run resumed at epoch 2 whose history records the validation F1 1 of
\* epoch 1: its first epoch reaches a lower F1 above 0 and the best
\* checkpoint of the earlier run is replaced by the one of epoch 2.
C19_Witness ==
    /\ start_epoch = 2
    /\ pc = "periodic"
    /\ epoch = 2
    /\ PriorBestF1 = Scale
    /\ ValF1(2) > 0
    /\ ValF1(2) < PriorBestF1
    /\ SavesTo(BestPath, 2) # {}
    /\ disk[BestPath].epoch = 2
    /\ disk[BestPath].history[HistKey("val", "f1")] = <<Scale, ValF1(2)>>

====
